---- MODULE Spec2Model ----
(***************************************************************************)
(* A model of the tuploid lexer (tuploid-parser/src/lexer.rs).             *)
(*                                                                         *)
(* The source buffer `src` is a Rust &str, i.e. a sequence of UTF-8 bytes. *)
(* It is modelled as a sequence with one element per byte: the lead byte   *)
(* of every character holds the character itself (a one-character string,  *)
(* or a "U+xxxx" name for a non-ASCII character) and every continuation     *)
(* byte holds Cont.  Offsets (cursor) are 0-based byte offsets as in Rust.  *)
(* Slicing a &str at an offset that is past the end or inside a character   *)
(* panics; a panic is recorded in the variable `panicked`.                  *)
(***************************************************************************)
EXTENDS Integers, Sequences, FiniteSets, TLC

VARIABLES
    src,          \* Lexer::src, the UTF-8 bytes of the source
    cursor,       \* Lexer::cursor
    line,         \* Lexer::line
    column,       \* Lexer::column
    tok,          \* the Token the last call of next() returned
    panicked,     \* the last call of next() panicked instead of returning
    calls,        \* the number of calls of next() so far
    eofs,         \* the number of those that returned Eof
    startCursor,  \* the cursor when the last call began
    startLine,    \* the line when the last call began
    startColumn,  \* the column when the last call began
    tokStart,     \* the cursor of the last call after its leading skip_whitespace
    wsLine,       \* the line of the last call after its leading skip_whitespace
    wsColumn,     \* the column of the last call after its leading skip_whitespace
    literal,      \* the argument of a direct call of Number::from_str
    parsed        \* what that call returned, NotParsed before it

vars == <<src, cursor, line, column, tok, panicked, calls, eofs,
          startCursor, startLine, startColumn, tokStart, wsLine, wsColumn,
          literal, parsed>>

----------------------------------------------------------------------------
(* Characters and their classes (std::char)                                *)

Cont == "cont"

LowerSeq == <<"a","b","c","d","e","f","g","h","i","j","k","l","m",
              "n","o","p","q","r","s","t","u","v","w","x","y","z">>
UpperSeq == <<"A","B","C","D","E","F","G","H","I","J","K","L","M",
              "N","O","P","Q","R","S","T","U","V","W","X","Y","Z">>
DigitSeq == <<"0","1","2","3","4","5","6","7","8","9">>

Range(s) == {s[k] : k \in 1..Len(s)}

Lower == Range(LowerSeq)
Upper == Range(UpperSeq)
Digit == Range(DigitSeq)

\* Non-ASCII characters of the model: NO-BREAK SPACE (White_Space), LATIN
\* SMALL LETTER E WITH ACUTE (Alphabetic), ARABIC-INDIC DIGIT THREE (Nd) and
\* EURO SIGN (none of these classes).
NBSP == "U+00A0"
EAcute == "U+00E9"
Arabic3 == "U+0663"
Euro == "U+20AC"

len_utf8(c) == IF c \in {NBSP, EAcute, Arabic3} THEN 2
               ELSE IF c = Euro THEN 3 ELSE 1

is_whitespace(c) == c \in {" ", "\t", "\n", "\r", NBSP}
is_alphabetic(c) == c \in Lower \cup Upper \cup {EAcute}
is_numeric(c) == c \in Digit \cup {Arabic3}
is_alphanumeric(c) == is_alphabetic(c) \/ is_numeric(c)
is_ascii_digit(c) == c \in Digit

IndexIn(s, c) == CHOOSE k \in 1..Len(s) : s[k] = c

\* char::to_digit(radix): the digit value of c, or -1 when c is no digit of
\* the radix.
DigitValue(c) == IF c \in Digit THEN IndexIn(DigitSeq, c) - 1
                 ELSE IF c \in Lower THEN IndexIn(LowerSeq, c) + 9
                 ELSE IF c \in Upper THEN IndexIn(UpperSeq, c) + 9
                 ELSE -1

InRadix(v, radix) == IF v >= 0 /\ v < radix THEN v ELSE -1

to_digit(c, radix) == InRadix(DigitValue(c), radix)

is_valid_identifier_start_char(c) == is_alphabetic(c) \/ c = "_"

is_valid_identifier_char(c) == is_alphanumeric(c) \/ c = "_"

----------------------------------------------------------------------------
(* &str as a byte sequence                                                 *)

\* The UTF-8 encoding of one character / of a sequence of characters.
EncodeChar(c) == <<c>> \o [k \in 1..(len_utf8(c) - 1) |-> Cont]

RECURSIVE Encode(_)
Encode(chars) == IF chars = <<>> THEN <<>>
                 ELSE EncodeChar(Head(chars)) \o Encode(Tail(chars))

\* str::is_char_boundary
is_char_boundary(b, i) ==
    \/ i = 0
    \/ i = Len(b)
    \/ i > 0 /\ i < Len(b) /\ b[i + 1] # Cont

\* b[i..] and b[i..j] are defined (do not panic)
SliceFromOk(b, i) == is_char_boundary(b, i)
SliceOk(b, i, j) == i <= j /\ is_char_boundary(b, i) /\ is_char_boundary(b, j)

\* b[i..j] for byte offsets i <= j
Slice(b, i, j) == SubSeq(b, i + 1, j)

None == "None"

\* b[i..].chars().next()
FirstChar(b, i) == IF i >= Len(b) THEN None ELSE b[i + 1]

BASES == <<"x", "y", "z", "s", "o", "b">>

\* The closures the lexer passes to str::find, negated: the characters of
\* an identifier and those of a numeric literal
InClass(class, c) ==
    CASE class = "identifier" -> is_valid_identifier_char(c)
      [] class = "number" ->
             is_numeric(c) \/ c \in Range(BASES) \/ c = "."
      [] class = "alphanumeric" -> is_alphanumeric(c)
      [] class = "whitespace" -> is_whitespace(c)

Least(S) == IF S = {} THEN -1 ELSE CHOOSE k \in S : \A m \in S : k <= m

\* b[i..].find(|c| !p(c)): the byte offset, relative to i, of the first
\* character that is not of the class, or -1
FindNot(b, i, class) ==
    Least({k \in 0..(Len(b) - i - 1) :
              b[i + k + 1] # Cont /\ ~InClass(class, b[i + k + 1])})

\* s.matches(c).count()
Count(s, c) == Cardinality({k \in 1..Len(s) : s[k] = c})

----------------------------------------------------------------------------
(* Number and Number::from_str                                             *)

RECURSIVE Pow10(_)
Pow10(n) == IF n <= 0 THEN 1 ELSE 10 * Pow10(n - 1)

\* The number of ASCII digits of s starting at (1-based) position from.
RECURSIVE DigitRun(_, _)
DigitRun(s, from) ==
    IF from > Len(s) \/ ~is_ascii_digit(s[from]) THEN 0
    ELSE 1 + DigitRun(s, from + 1)

\* The value of a digit string in a radix, most significant digit first (acc
\* for the empty string); -1 when a character is no digit of the radix.
RECURSIVE DigitsValue(_, _, _)
DigitsValue(s, radix, acc) ==
    IF s = <<>> THEN acc
    ELSE IF to_digit(Head(s), radix) < 0 THEN -1
    ELSE DigitsValue(Tail(s), radix, acc * radix + to_digit(Head(s), radix))

to_ascii_lowercase(c) == IF c \in Upper THEN LowerSeq[IndexIn(UpperSeq, c)] ELSE c

F64(class, neg, num, den) ==
    [ok |-> TRUE, class |-> class, neg |-> neg, num |-> num, den |-> den]

F64Err == [ok |-> FALSE, class |-> "none", neg |-> FALSE, num |-> 0, den |-> 1]

\* The f64 of value num/den, den a power of ten, trailing zeros cancelled
RECURSIVE Reduced(_, _, _)
Reduced(neg, num, den) ==
    IF den > 1 /\ num % 10 = 0 THEN Reduced(neg, num \div 10, den \div 10)
    ELSE F64("finite", neg, num, den)

\* The f64 of value mant * 10^scale
Finite(neg, mant, scale) ==
    IF scale >= 0 THEN F64("finite", neg, mant * Pow10(scale), 1)
    ELSE Reduced(neg, mant, Pow10(0 - scale))

Lowercase(s) == [k \in 1..Len(s) |-> to_ascii_lowercase(s[k])]

\* dec2flt's parse_inf_nan, on the text after the sign
ParseInfNan(neg, body) ==
    IF Lowercase(body)
           \in {<<"i","n","f">>, <<"i","n","f","i","n","i","t","y">>}
    THEN F64("inf", neg, 0, 1)
    ELSE IF Lowercase(body) = <<"n","a","n">> THEN F64("nan", neg, 0, 1)
    ELSE F64Err

\* dec2flt's parse_scientific and the end of parse_number: the n3 digits
\* of the exponent begin at position p
ParseExpDigits(neg, body, mant, n2, eneg, p, n3) ==
    IF n3 = 0 \/ p + n3 # Len(body) + 1 THEN ParseInfNan(neg, body)
    ELSE Finite(neg, mant,
             (IF eneg THEN 0 - DigitsValue(SubSeq(body, p, p + n3 - 1), 10, 0)
              ELSE DigitsValue(SubSeq(body, p, p + n3 - 1), 10, 0)) - n2)

ParseExpSign(neg, body, mant, n2, p) ==
    IF p <= Len(body) /\ body[p] \in {"+", "-"}
    THEN ParseExpDigits(neg, body, mant, n2, body[p] = "-", p + 1,
                        DigitRun(body, p + 1))
    ELSE ParseExpDigits(neg, body, mant, n2, FALSE, p, DigitRun(body, p))

\* dec2flt's parse_partial_number after the mantissa: n1 integer digits, n2
\* fraction digits from position fstart
ParseExponent(neg, body, n1, fstart, n2, mant) ==
    IF n1 + n2 = 0 THEN ParseInfNan(neg, body)
    ELSE IF fstart + n2 <= Len(body) /\ body[fstart + n2] \in {"e", "E"}
    THEN ParseExpSign(neg, body, mant, n2, fstart + n2 + 1)
    ELSE IF fstart + n2 = Len(body) + 1 THEN Finite(neg, mant, 0 - n2)
    ELSE ParseInfNan(neg, body)

ParseFraction(neg, body, n1, fstart, n2) ==
    ParseExponent(neg, body, n1, fstart, n2,
        DigitsValue(SubSeq(body, 1, n1)
                        \o SubSeq(body, fstart, fstart + n2 - 1), 10, 0))

ParseMantissa(neg, body, n1) ==
    IF n1 < Len(body) /\ body[n1 + 1] = "."
    THEN ParseFraction(neg, body, n1, n1 + 2, DigitRun(body, n1 + 2))
    ELSE ParseFraction(neg, body, n1, n1 + 1, 0)

ParseUnsigned(neg, body) ==
    IF body = <<>> THEN F64Err ELSE ParseMantissa(neg, body, DigitRun(body, 1))

\* f64::from_str (core::num::dec2flt): an optional sign, then either decimal
\* digits with an optional '.' and an optional exponent, or one of the words
\* inf, infinity, nan in any case.  The value is kept as an exact rational,
\* which is what f64 holds for the short literals of the model.
ParseF64(s) ==
    IF s = <<>> THEN F64Err
    ELSE ParseUnsigned(s[1] = "-",
                       IF s[1] \in {"+", "-"} THEN Tail(s) ELSE s)

\* f == f.floor()
IsIntegral(f) == \/ f.class = "inf"
                 \/ f.class = "finite" /\ f.num % f.den = 0

\* Number values.  `max` stands for a u64 saturated at u64::MAX, which is
\* beyond the integers TLC computes with.
Untyped(v) == [variant |-> "Untyped", num |-> v, den |-> 1, neg |-> FALSE,
               max |-> FALSE]
Integer(v) == [variant |-> "Integer", num |-> v, den |-> 1, neg |-> FALSE,
               max |-> FALSE]
Float(f) == [variant |-> "Float", num |-> f.num, den |-> f.den, neg |-> f.neg,
             max |-> f.class # "finite"]
NoNumber == [variant |-> "None", num |-> 0, den |-> 1, neg |-> FALSE,
             max |-> FALSE]

\* `f as u64`: a saturating cast
F64AsU64(f) ==
    IF f.neg \/ f.class = "nan" THEN Untyped(0)
    ELSE IF f.class = "inf" THEN [Untyped(0) EXCEPT !.max = TRUE]
    ELSE Untyped(f.num \div f.den)

\* u64::from_str_radix: an optional leading '+', then one or more digits of
\* the radix.  -1 stands for Err.
from_str_radix(s, radix) ==
    IF s = <<>> \/ s = <<"+">> THEN -1
    ELSE DigitsValue(IF s[1] = "+" THEN Tail(s) ELSE s, radix, 0)

Ok(n) == [ok |-> TRUE, number |-> n, err |-> None]
Err(e) == [ok |-> FALSE, number |-> NoNumber, err |-> e]

\* The radix a base marker selects (0: no base marker)
RadixOf(base) ==
    CASE base = "x" -> 16
      [] base = "y" -> 14
      [] base = "z" -> 12
      [] base = "o" -> 8
      [] base = "b" -> 2
      [] base = "s" -> 13
      [] OTHER -> 0

\* s.chars().nth(1)
SecondChar(s) ==
    IF len_utf8(s[1]) >= Len(s) THEN None ELSE s[len_utf8(s[1]) + 1]

IntegerOrErr(v) == IF v < 0 THEN Err("InvalidInteger") ELSE Ok(Integer(v))

\* Faulty variant of FromStrRadix: the digits are parsed without the "0" and
\* the base marker before them
FromStrRadix_digits_only(s, base) ==
    IF base = None THEN Ok(Untyped(0))
    ELSE IF RadixOf(base) = 0 THEN Err("InvalidBase")
    ELSE IntegerOrErr(from_str_radix(SubSeq(s, 3, Len(s)), RadixOf(base)))

\* Number::from_str once the float parse has failed: `base` is the second
\* character of a string that starts with "0"
FromStrRadix(s, base) ==
    IF base = None THEN Ok(Untyped(0))
    ELSE IF RadixOf(base) = 0 THEN Err("InvalidBase")
    ELSE IntegerOrErr(from_str_radix(s, RadixOf(base)))

FromStrFloat(s, float) ==
    IF float.ok
    THEN IF IsIntegral(float) THEN Ok(F64AsU64(float)) ELSE Ok(Float(float))
    ELSE IF s # <<>> /\ s[1] = "0" THEN FromStrRadix(s, SecondChar(s))
    ELSE IntegerOrErr(from_str_radix(s, 10))

\* <Number as FromStr>::from_str
from_str(s) == FromStrFloat(s, ParseF64(s))

----------------------------------------------------------------------------
(* Token                                                                   *)

\* An identifier's name is a &str borrowed from the source: the bytes it
\* holds (name) and where in the source they lie (offset).
Token(l, c, kind, name, offset, number, msg) ==
    [line |-> l, column |-> c, kind |-> kind, name |-> name,
     offset |-> offset, number |-> number, msg |-> msg]

NoToken == Token(0, 0, "None", <<>>, 0, NoNumber, "")

TokenEof(l, c) == Token(l, c, "Eof", <<>>, 0, NoNumber, "")
TokenIdentifier(l, c, name, offset) ==
    Token(l, c, "Identifier", name, offset, NoNumber, "")
TokenNumber(l, c, number) == Token(l, c, "Number", <<>>, 0, number, "")
TokenError(l, c, msg) == Token(l, c, "Error", <<>>, 0, NoNumber, msg)
TokenSimple(l, c, kind) == Token(l, c, kind, <<>>, 0, NoNumber, "")

----------------------------------------------------------------------------
(* Lexer.  A lexer state st is [cursor, line, column]; every method yields *)
(* the state it leaves and whether it panicked.                            *)

LexerNew == [cursor |-> 0, line |-> 1, column |-> 1]

Ret(st, t) == [st |-> st, tok |-> t, panic |-> FALSE]
Panic(st) == [st |-> st, tok |-> NoToken, panic |-> TRUE]
Simple(st, kind) == Ret(st, TokenSimple(st.line, st.column, kind))

\* Lexer::next_char: [st, c, panic]
Advance(st, next) ==
    [st |-> [st EXCEPT !.column = @ + 1,
                       !.cursor = @ + (IF next = None THEN 0
                                       ELSE len_utf8(next))],
     c |-> next, panic |-> FALSE]

\* Faulty variant of next_char: the cursor advances at the end of the
\* source too
next_char_past_end(b, st) ==
    IF ~SliceFromOk(b, st.cursor) THEN [st |-> st, c |-> None, panic |-> TRUE]
    ELSE IF FirstChar(b, st.cursor) = None
    THEN [st |-> [st EXCEPT !.column = @ + 1, !.cursor = @ + 1],
          c |-> None, panic |-> FALSE]
    ELSE Advance(st, FirstChar(b, st.cursor))

next_char(b, st) ==
    IF ~SliceFromOk(b, st.cursor) THEN [st |-> st, c |-> None, panic |-> TRUE]
    ELSE Advance(st, FirstChar(b, st.cursor))

\* Lexer::peek_char: the slice it takes is defined, and the character it yields
PeekOk(b, st) == SliceFromOk(b, st.cursor + 1)
peek_char(b, st) == FirstChar(b, st.cursor + 1)

\* Lexer::next_is: the slice it takes is defined, and its result
NextIsOk(b, st, s) == SliceOk(b, st.cursor, st.cursor + Len(s))
next_is(b, st, s) == Slice(b, st.cursor, st.cursor + Len(s)) = s

\* Faulty variants of retreat: one that leaves the cursor where it is, and
\* one that steps back one byte too many
retreat_none(st, count) == st
retreat_one_more(st, count) == [st EXCEPT !.cursor = @ - (count + 1)]

\* Lexer::retreat
retreat(st, count) == [st EXCEPT !.cursor = @ - count]

\* .unwrap_or_else(|| self.src.len()) on the result of find
UnwrapOrLen(b, found) == IF found = -1 THEN Len(b) ELSE found

\* Faulty variant of IdentifierTo: the name is cut at the end of the source
\* instead of panicking, and the cursor still moves by identifier_end
IdentifierTo_unchecked(b, st, identifier_end) ==
    Ret([st EXCEPT !.cursor = @ + identifier_end,
                   !.column = @ + identifier_end],
        TokenIdentifier(st.line, st.column,
            IF SliceOk(b, st.cursor, st.cursor + identifier_end)
            THEN Slice(b, st.cursor, st.cursor + identifier_end)
            ELSE Slice(b, st.cursor, Len(b)),
            st.cursor))

\* Lexer::consume_identifier
IdentifierTo(b, st, identifier_end) ==
    IF ~SliceOk(b, st.cursor, st.cursor + identifier_end) THEN Panic(st)
    ELSE Ret([st EXCEPT !.cursor = @ + identifier_end,
                        !.column = @ + identifier_end],
             TokenIdentifier(st.line, st.column,
                 Slice(b, st.cursor, st.cursor + identifier_end), st.cursor))

consume_identifier(b, st) ==
    IF ~SliceFromOk(b, st.cursor) THEN Panic(st)
    ELSE IdentifierTo(b, st,
             UnwrapOrLen(b, FindNot(b, st.cursor, "identifier")))

\* The first base marker, in the order of BASES, that the literal holds at
\* least `least` times (-1: none)
RepeatedBase(possible_number, least) ==
    Least({k \in 1..Len(BASES) : Count(possible_number, BASES[k]) >= least})

\* The test of consume_number for too many dots
TooManyDots(possible_number) == Count(possible_number, ".") >= 1

\* The test of consume_number for a repeated base marker
TooManyBases(possible_number) == RepeatedBase(possible_number, 1)

\* The token of consume_number for the result of Number::from_str
NumberToken(st, number) ==
    IF number.ok THEN Ret(st, TokenNumber(st.line, st.column, number.number))
    ELSE Ret(st, TokenError(st.line, st.column,
                 "Error when parsing integer literal: " \o number.err))

\* Lexer::consume_number, from the test of the dots on
ClassifyNumber(st, possible_number) ==
    IF TooManyDots(possible_number)
    THEN Ret(st, TokenError(st.line, st.column,
                 "too many dots in floating-point literal"))
    ELSE IF TooManyBases(possible_number) # -1
    THEN Ret(st, TokenError(st.line, st.column,
                 "Too many '" \o BASES[TooManyBases(possible_number)]
                     \o "' in integer literal"))
    ELSE NumberToken(st, from_str(possible_number))

\* Faulty variant of NumberTo: the literal's length goes to the column
NumberTo_column(b, st, number_end) ==
    IF ~SliceOk(b, st.cursor, st.cursor + number_end) THEN Panic(st)
    ELSE ClassifyNumber([st EXCEPT !.cursor = @ + number_end,
                                   !.column = @ + number_end],
                        Slice(b, st.cursor, st.cursor + number_end))

NumberTo(b, st, number_end) ==
    IF ~SliceOk(b, st.cursor, st.cursor + number_end) THEN Panic(st)
    ELSE ClassifyNumber([st EXCEPT !.cursor = @ + number_end,
                                   !.line = @ + number_end],
                        Slice(b, st.cursor, st.cursor + number_end))

\* Lexer::consume_number
consume_number(b, st) ==
    IF ~SliceFromOk(b, st.cursor) THEN Panic(st)
    ELSE NumberTo(b, st, UnwrapOrLen(b, FindNot(b, st.cursor, "number")))

\* Faulty variant of WhitespaceLoop: a newline does not reset the column
RECURSIVE WhitespaceLoop_no_reset(_, _, _, _, _)
WhitespaceLoop_no_reset(b, p, to_skip, l, c) ==
    IF p >= Len(b) \/ ~is_whitespace(b[p + 1])
    THEN [to_skip |-> to_skip, line |-> l, column |-> c]
    ELSE IF b[p + 1] = "\n"
    THEN WhitespaceLoop_no_reset(b, p + len_utf8(b[p + 1]), to_skip + 1,
                                 l + 1, c + 1)
    ELSE WhitespaceLoop_no_reset(b, p + len_utf8(b[p + 1]), to_skip + 1,
                                 l, c + 1)

\* The loop of Lexer::skip_whitespace over the characters from byte offset p
RECURSIVE WhitespaceLoop(_, _, _, _, _)
WhitespaceLoop(b, p, to_skip, l, c) ==
    IF p >= Len(b) \/ ~is_whitespace(b[p + 1])
    THEN [to_skip |-> to_skip, line |-> l, column |-> c]
    ELSE IF b[p + 1] = "\n"
    THEN WhitespaceLoop(b, p + len_utf8(b[p + 1]), to_skip + 1, l + 1, 1)
    ELSE WhitespaceLoop(b, p + len_utf8(b[p + 1]), to_skip + 1, l, c + 1)

Skipped(st, r) ==
    [st |-> [cursor |-> st.cursor + r.to_skip, line |-> r.line,
             column |-> r.column],
     panic |-> FALSE]

\* Lexer::skip_whitespace: [st, panic]
skip_whitespace(b, st) ==
    IF ~SliceFromOk(b, st.cursor) THEN [st |-> st, panic |-> TRUE]
    ELSE Skipped(st, WhitespaceLoop(b, st.cursor, 0, st.line, st.column))

\* The loop of Lexer::consume_single_line_comment: [st, panic]
RECURSIVE CommentLoop(_, _)
CommentLoop(b, st) ==
    IF ~PeekOk(b, st) THEN [st |-> st, panic |-> TRUE]
    ELSE IF peek_char(b, st) = None THEN [st |-> st, panic |-> FALSE]
    ELSE IF peek_char(b, st) = "\n"
    THEN [st |-> [st EXCEPT !.cursor = @ + 1], panic |-> FALSE]
    ELSE CommentLoop(b, [st EXCEPT !.cursor = @ + len_utf8(peek_char(b, st))])

CommentToken(r) ==
    IF r.panic THEN Panic(r.st)
    ELSE Ret([r.st EXCEPT !.line = @ + 1, !.column = 1],
             TokenSimple(r.st.line, r.st.column, "Comment"))

\* Lexer::consume_single_line_comment
consume_single_line_comment(b, st) == CommentToken(CommentLoop(b, st))

\* A token made after one more next_char
AfterNextChar(r, kind) == IF r.panic THEN Panic(r.st) ELSE Simple(r.st, kind)

\* An operator arm of Lexer::next: the compound token when peek_char yields
\* the partner, the bare token otherwise
OperatorArm(b, st, partner, compound, bare) ==
    IF ~PeekOk(b, st) THEN Panic(st)
    ELSE IF peek_char(b, st) = partner
    THEN AfterNextChar(next_char(b, st), compound)
    ELSE Simple(st, bare)

\* The arm of Lexer::next for 'i'
ArmI(b, st) ==
    IF ~PeekOk(b, st) THEN Panic(st)
    ELSE IF peek_char(b, st) = "f" THEN Simple(st, "If")
    ELSE IF peek_char(b, st) = "n" THEN Simple(st, "In")
    ELSE consume_identifier(b, retreat(st, 1))

\* The arm of Lexer::next for 'l'
ArmL(b, st) ==
    IF ~NextIsOk(b, st, <<"o", "o", "p">>) THEN Panic(st)
    ELSE IF next_is(b, st, <<"o", "o", "p">>)
    THEN Simple([st EXCEPT !.cursor = @ + 3], "Loop")
    ELSE IF ~NextIsOk(b, st, <<"e", "t">>) THEN Panic(st)
    ELSE IF next_is(b, st, <<"e", "t">>)
    THEN Simple([st EXCEPT !.cursor = @ + 2], "Let")
    ELSE consume_identifier(b, retreat(st, 1))

\* The arm of Lexer::next for 't'
ArmT(b, st) ==
    IF ~NextIsOk(b, st, <<"y", "p", "e">>) THEN Panic(st)
    ELSE IF next_is(b, st, <<"y", "p", "e">>)
    THEN Simple([st EXCEPT !.cursor = @ + 3], "Type")
    ELSE consume_identifier(b, retreat(st, 1))

\* The arm of Lexer::next for '/'
ArmSlash(b, st) ==
    IF ~PeekOk(b, st) THEN Panic(st)
    ELSE IF peek_char(b, st) = "="
    THEN AfterNextChar(next_char(b, st), "SlashEquals")
    ELSE IF peek_char(b, st) = "/" THEN consume_single_line_comment(b, st)
    ELSE Simple(st, "Slash")

IdentifierAfter(b, ws) ==
    IF ws.panic THEN Panic(ws.st) ELSE consume_identifier(b, ws.st)

\* The arm of Lexer::next for a character that starts an identifier
ArmIdentifier(b, st, c) ==
    IdentifierAfter(b, skip_whitespace(b, retreat(st, len_utf8(c))))

\* The match of Lexer::next on the character c that next_char yielded
Dispatch(b, st, c) ==
    CASE c = "i" -> ArmI(b, st)
      [] c = "l" -> ArmL(b, st)
      [] c = "t" -> ArmT(b, st)
      [] c = ":" -> Simple(st, "Colon")
      [] c = ";" -> Simple(st, "Semicolon")
      [] c = "(" -> Simple(st, "LeftParen")
      [] c = ")" -> Simple(st, "RightParen")
      [] c = "{" -> Simple(st, "LeftCurly")
      [] c = "}" -> Simple(st, "RightCurly")
      [] c = "=" -> OperatorArm(b, st, "=", "EqualsEquals", "Equals")
      [] c = "," -> Simple(st, "Comma")
      [] c = "+" -> OperatorArm(b, st, "=", "PlusEquals", "Plus")
      [] c = "-" -> OperatorArm(b, st, "=", "MinusEquals", "Minus")
      [] c = "*" -> OperatorArm(b, st, "=", "StarEquals", "Star")
      [] c = "/" -> ArmSlash(b, st)
      [] c = "&" -> OperatorArm(b, st, "&", "AmpersandAmpersand", "Ampersand")
      [] c = "!" -> OperatorArm(b, st, "=", "NotEquals", "Not")
      [] c = "~" -> OperatorArm(b, st, "=", "TildeEquals", "Tilde")
      [] c = "|" -> OperatorArm(b, st, "|", "PipePipe", "Pipe")
      [] OTHER ->
           IF is_ascii_digit(c) THEN consume_number(b, retreat(st, 1))
           ELSE IF is_valid_identifier_start_char(c)
           THEN ArmIdentifier(b, st, c)
           ELSE Ret(st, TokenError(st.line, st.column,
                        "Unexpected character '" \o c \o "'"))

\* Lexer::next from the call of next_char on
Scan(b, nc) ==
    IF nc.panic THEN Panic(nc.st)
    ELSE IF nc.c = None THEN Ret(nc.st, TokenEof(nc.st.line, nc.st.column))
    ELSE Dispatch(b, nc.st, nc.c)

\* The result of a call with the state in which its token began
Started(r, start) ==
    [st |-> r.st, tok |-> r.tok, panic |-> r.panic, start |-> start]

AfterWhitespace(b, ws) ==
    IF ws.panic THEN Started(Panic(ws.st), ws.st)
    ELSE Started(Scan(b, next_char(b, ws.st)), ws.st)

\* Lexer::next: [st, tok, panic, start], start being the state after the
\* leading skip_whitespace
LexerNext(b, st) == AfterWhitespace(b, skip_whitespace(b, st))

----------------------------------------------------------------------------
(* The sources the lexer is run on                                         *)

\* The longest source of the exhaustive part, in characters
MaxLen == 3

\* The number of calls of next() that are made after one has returned Eof
MaxEofCalls == 3

\* The characters of the exhaustively enumerated sources: the general ones,
\* those of numeric literals, those of the keywords, and the non-ASCII ones
\* with what makes a comment
Alphabet == {"i", "f", "l", "e", "t", "=", "+", "&", "/", "3", "0", ".",
             "x", " ", "\n"}
NumberAlphabet == {"0", "1", "3", ".", "x", "b", "q", "F", " "}
KeywordAlphabet == {"i", "f", "n", "l", "e", "t", "o", "p", "s", " "}
UnicodeAlphabet == {NBSP, EAcute, Arabic3, Euro, "/", "x", "\n"}

\* The character sequences of length at most n over an alphabet
Strings(A, n) == UNION {[1..k -> A] : k \in 0..n}

\* tests::basic
BasicSrc == <<"l","e","t"," ","t","u","p","l","e"," ",":"," ","(","i","8",
              ","," ","s","e","c","o","n","d",":"," ","i","1","6",","," ",
              "i","3","2",")"," ","="," ","(","3",","," ","4",","," ","5",
              ")",";">>

\* The words the specification and the tests name
Words ==
    { <<"l","e","t">>, <<"l","e","t","s">>, <<"l","e","t","t","e","r">>,
      <<"i","f">>, <<"i","n">>, <<"i","f","x">>,
      <<"l","o","o","p">>, <<"l","o","o","p","s">>,
      <<"t","y","p","e">>, <<"t","y","p","e","s">>,
      <<"=","=">>, <<"+","=">>, <<"-","=">>, <<"*","=">>, <<"/","=">>,
      <<"!","=">>, <<"~","=">>, <<"&","&">>, <<"|","|">>,
      <<"=">>, <<"+">>, <<"-">>, <<"*">>, <<"/">>, <<"!">>, <<"~">>,
      <<"&">>, <<"|">>,
      <<"3">>, <<"3",".","1","4">>, <<"1",".","2",".","3">>,
      <<"0","x","1","F">>, <<"0","b","1","1">>, <<"0","q","5">>,
      <<"0","x","1","f">>, <<"0","s","1","3">>, <<"0","y","1","0">>,
      <<"/","/"," ","n","o","t","e","\n","x">>,
      <<"/","/","/"," ","n","o","t","e","\n","x">>,
      <<"/"," ","/","n","o","t","e">>, <<"/","x","/",EAcute,"\n","x">>,
      <<"/","/","/",Euro,Euro,"\n","x">>,
      <<NBSP>>, <<" ","\t","\r","\n">>, <<Euro>>, <<EAcute,"_","1">>,
      <<"0",Arabic3>>, <<"{","}">>, <<"4","2">>, <<"\n","4","2">>,
      <<"x"," ","\n","\t","4","2">> }

\* What follows a word in a source
Paddings == { <<>>, <<" ">>, <<" "," ">>, <<";">>, <<";",";">> }

NamedSources ==
    {BasicSrc} \cup {w \o p : w \in Words, p \in Paddings}
               \cup {<<" ">> \o w \o p : w \in Words, p \in Paddings}

Sources ==
    {Encode(s) : s \in Strings(Alphabet, MaxLen)
                     \cup Strings(NumberAlphabet, MaxLen)
                     \cup Strings(KeywordAlphabet, MaxLen)
                     \cup Strings(UnicodeAlphabet, MaxLen)
                     \cup NamedSources}

----------------------------------------------------------------------------
(* The state machine: a Lexer over one source, and calls of next()         *)

\* No direct call of Number::from_str has been made
NotParsed == [ok |-> FALSE, number |-> NoNumber, err |-> "NotParsed"]

Init ==
    /\ src \in Sources
    /\ cursor = LexerNew.cursor
    /\ line = LexerNew.line
    /\ column = LexerNew.column
    /\ tok = NoToken
    /\ panicked = FALSE
    /\ calls = 0
    /\ eofs = 0
    /\ startCursor = 0
    /\ startLine = LexerNew.line
    /\ startColumn = LexerNew.column
    /\ tokStart = 0
    /\ wsLine = LexerNew.line
    /\ wsColumn = LexerNew.column
    /\ literal = <<>>
    /\ parsed = NotParsed

\* The state after a call of Lexer::next with result r
Returned(r) ==
    /\ cursor' = r.st.cursor
    /\ line' = r.st.line
    /\ column' = r.st.column
    /\ tok' = r.tok
    /\ panicked' = r.panic
    /\ eofs' = IF r.tok.kind = "Eof" THEN eofs + 1 ELSE eofs
    /\ tokStart' = r.start.cursor
    /\ wsLine' = r.start.line
    /\ wsColumn' = r.start.column

\* One call of Lexer::next by the parser
Call ==
    /\ ~panicked
    /\ eofs < MaxEofCalls
    /\ Returned(LexerNext(src, [cursor |-> cursor, line |-> line,
                                column |-> column]))
    /\ calls' = calls + 1
    /\ startCursor' = cursor
    /\ startLine' = line
    /\ startColumn' = column
    /\ UNCHANGED <<src, literal, parsed>>

Next == Call

Spec == Init /\ [][Next]_vars

----------------------------------------------------------------------------
(* Number::from_str called directly on a string                            *)

\* The characters of the strings Number::from_str is called on
FromStrAlphabet == {"0", "1", "7", "b", "x", "s", "F", "c", ".", "o", "+"}

FromStrNamed ==
    { <<"0","x","1","F">>, <<"0","x","1","f">>, <<"0","b","1","1">>,
      <<"0","s","1","3">>, <<"0","y","1","0">>, <<"0","z","1","b">>,
      <<"0","o","1","7">>, <<"0","o","1","8">>, <<"0","b","1","2">>,
      <<"0","q","5">>, <<"3",".","1","4">>, <<"1","e","-","2">>,
      <<"i","n","f">>, <<"n","a","n">>, <<"0","x","1","F","F","F","F">>,
      <<"0","b","1","0","1","0","1">>, <<"0","0","b","1">>, <<"x","0","1">> }

FromStrInputs == Strings(FromStrAlphabet, MaxLen) \cup FromStrNamed

InitFromStr ==
    /\ literal \in FromStrInputs
    /\ parsed = NotParsed
    /\ src = <<>>
    /\ cursor = LexerNew.cursor
    /\ line = LexerNew.line
    /\ column = LexerNew.column
    /\ tok = NoToken
    /\ panicked = FALSE
    /\ calls = 0
    /\ eofs = 0
    /\ startCursor = 0
    /\ startLine = LexerNew.line
    /\ startColumn = LexerNew.column
    /\ tokStart = 0
    /\ wsLine = LexerNew.line
    /\ wsColumn = LexerNew.column

\* One call of Number::from_str
FromStrCall ==
    /\ parsed = NotParsed
    /\ parsed' = from_str(literal)
    /\ UNCHANGED <<src, cursor, line, column, tok, panicked, calls, eofs,
                   startCursor, startLine, startColumn, tokStart, wsLine,
                   wsColumn, literal>>

NextFromStr == FromStrCall

SpecFromStr == InitFromStr /\ [][NextFromStr]_vars

----------------------------------------------------------------------------
(* Properties                                                              *)

\* A call of next() has been made and it returned a token
returned == calls > 0 /\ ~panicked

E(kind) == [kind |-> kind, name |-> <<>>, number |-> NoNumber]
EI(name) == [kind |-> "Identifier", name |-> name, number |-> NoNumber]
EN(number) == [kind |-> "Number", name |-> <<>>, number |-> number]

\* The tokens of BasicSrc
BasicExpected ==
    << E("Let"), EI(<<"t","u","p","l","e">>), E("Colon"), E("LeftParen"),
       EI(<<"i","8">>), E("Comma"), EI(<<"s","e","c","o","n","d">>),
       E("Colon"), EI(<<"i","1","6">>), E("Comma"), EI(<<"i","3","2">>),
       E("RightParen"), E("Equals"), E("LeftParen"), EN(Untyped(3)),
       E("Comma"), EN(Untyped(4)), E("Comma"), EN(Untyped(5)),
       E("RightParen"), E("Semicolon"), E("Eof") >>

\* C1: on the source of tests::basic, the k-th call of next() returns the
\* k-th of the 22 expected tokens (kind, identifier name, number), the last
\* being Eof.
C1_BasicTokenStream ==
    (src = Encode(BasicSrc) /\ calls >= 1 /\ calls <= Len(BasicExpected)) =>
        /\ ~panicked
        /\ tok.kind = BasicExpected[calls].kind
        /\ tok.name = BasicExpected[calls].name
        /\ tok.number = BasicExpected[calls].number

C1_Witness ==
    src = Encode(BasicSrc) /\ calls = Len(BasicExpected) /\ tok.kind = "Eof"

\* C2: no call of next() panics, whatever the source and the calls before.
C2_NeverAborts == ~panicked

\* C3: a call of next() that returns a token other than Eof leaves the cursor
\* strictly beyond where it was when the call began; no call that returns
\* moves the cursor back; and the text of the token it returns does not begin
\* before the cursor the previous call left.
C3_ForwardProgress ==
    returned =>
        /\ cursor >= startCursor
        /\ tok.kind # "Eof" => cursor > startCursor
        /\ tokStart >= startCursor
        /\ tok.kind = "Identifier" => tok.offset >= startCursor

C3_Witness ==
    /\ returned
    /\ calls >= 2
    /\ tok.kind = "Identifier"
    /\ startCursor > 0
    /\ cursor > startCursor

\* C4: once a call of next() has returned Eof, the latest call has returned
\* Eof too (and has not panicked).
C4_EofIsSticky == eofs > 0 => (tok.kind = "Eof" /\ ~panicked)

C4_Witness == eofs >= 2 /\ tok.kind = "Eof" /\ calls > eofs

\* The maximal run of characters of a class from byte offset i of b
RunLen(b, i, class) ==
    IF FindNot(b, i, class) = -1 THEN Len(b) - i ELSE FindNot(b, i, class)

MaximalRun(b, i, class) == Slice(b, i, i + RunLen(b, i, class))

\* The run of identifier characters where the token of the last call begins
IdentRun == MaximalRun(src, tokStart, "identifier")

Keywords == { <<"i","f">>, <<"i","n">>, <<"l","e","t">>,
              <<"l","o","o","p">>, <<"t","y","p","e">> }

KeywordKind(w) ==
    CASE w = <<"i","f">> -> "If"
      [] w = <<"i","n">> -> "In"
      [] w = <<"l","e","t">> -> "Let"
      [] w = <<"l","o","o","p">> -> "Loop"
      [] w = <<"t","y","p","e">> -> "Type"
      [] OTHER -> "None"

IsProperPrefix(w, r) == Len(w) < Len(r) /\ SubSeq(r, 1, Len(w)) = w

\* C5: whenever the run of identifier characters where the token begins is
\* longer than a keyword it starts with, the call returns the Identifier whose
\* name is the whole run.
C5_KeywordPrefixRejected ==
    (returned /\ \E w \in Keywords : IsProperPrefix(w, IdentRun)) =>
        (tok.kind = "Identifier" /\ tok.name = IdentRun)

\* C6: whenever the run of identifier characters where the token begins is
\* exactly a keyword, the call returns that keyword's token and leaves the
\* cursor right after the word.
C6_KeywordRecognised ==
    (returned /\ IdentRun \in Keywords) =>
        (tok.kind = KeywordKind(IdentRun) /\ cursor = tokStart + Len(IdentRun))

OperatorChars == {"=", "+", "-", "*", "/", "!", "~", "&", "|"}

Partner(c) == IF c \in {"&", "|"} THEN c ELSE "="

CompoundKind(c) ==
    CASE c = "=" -> "EqualsEquals"
      [] c = "+" -> "PlusEquals"
      [] c = "-" -> "MinusEquals"
      [] c = "*" -> "StarEquals"
      [] c = "/" -> "SlashEquals"
      [] c = "!" -> "NotEquals"
      [] c = "~" -> "TildeEquals"
      [] c = "&" -> "AmpersandAmpersand"
      [] c = "|" -> "PipePipe"
      [] OTHER -> "None"

BareKind(c) ==
    CASE c = "=" -> "Equals"
      [] c = "+" -> "Plus"
      [] c = "-" -> "Minus"
      [] c = "*" -> "Star"
      [] c = "/" -> "Slash"
      [] c = "!" -> "Not"
      [] c = "~" -> "Tilde"
      [] c = "&" -> "Ampersand"
      [] c = "|" -> "Pipe"
      [] OTHER -> "None"

\* The character where the token of the last call begins, and the one after
FirstOfToken == FirstChar(src, tokStart)
SecondOfToken == FirstChar(src, tokStart + 1)

\* C7: when the token begins with an operator character, the call returns
\* the compound token and consumes two characters if the character right
\* after it is its partner, and returns the bare token and consumes one
\* character otherwise (`//`, a comment, aside).
C7_CompoundOperators ==
    (returned /\ FirstOfToken \in OperatorChars) =>
        IF SecondOfToken = Partner(FirstOfToken)
        THEN tok.kind = CompoundKind(FirstOfToken) /\ cursor = tokStart + 2
        ELSE IF FirstOfToken = "/" /\ SecondOfToken = "/" THEN TRUE
        ELSE tok.kind = BareKind(FirstOfToken) /\ cursor = tokStart + 1

\* The numeric literal run where the token of the last call begins
NumberRun == MaximalRun(src, tokStart, "number")

AllDigits(s) == \A k \in 1..Len(s) : is_ascii_digit(s[k])

\* digits '.' digits, with digits on both sides
IsDecimalFraction(s) ==
    /\ Count(s, ".") = 1
    /\ \A k \in 1..Len(s) : is_ascii_digit(s[k]) \/ s[k] = "."
    /\ s[1] # "." /\ s[Len(s)] # "."

DotsMsg == "too many dots in floating-point literal"

\* C8: a numeric literal run gets the too-many-dots error exactly when it
\* holds more than one '.'; digits '.' digits yields the Number that
\* Number::from_str makes of it (Float(3.14) for 3.14); digits alone yield
\* Untyped(value).
C8_DotsInLiteral ==
    (returned /\ is_ascii_digit(FirstOfToken)) =>
        /\ (tok.kind = "Error" /\ tok.msg = DotsMsg)
               <=> Count(NumberRun, ".") > 1
        /\ IsDecimalFraction(NumberRun) =>
               (tok.kind = "Number" /\ tok.number = from_str(NumberRun).number)
        /\ AllDigits(NumberRun) =>
               (tok.kind = "Number"
                    /\ tok.number = Untyped(DigitsValue(NumberRun, 10, 0)))

\* The run of alphanumeric characters where the token of the last call begins
AlnumRun == MaximalRun(src, tokStart, "alphanumeric")

\* 0<marker><digits>, the digits valid in the marker's radix
IsBaseMarkedLiteral(s) ==
    /\ Len(s) >= 3
    /\ s[1] = "0"
    /\ RadixOf(s[2]) # 0
    /\ DigitsValue(SubSeq(s, 3, Len(s)), RadixOf(s[2]), 0) >= 0

\* C9: a literal 0<marker><digits> whose digits are valid in the marker's
\* radix is scanned as one token Number(Integer(v)), v the value of the
\* digits in that radix.
C9_BaseMarkedInteger ==
    (returned /\ IsBaseMarkedLiteral(AlnumRun)) =>
        /\ tok.kind = "Number"
        /\ tok.number = Integer(DigitsValue(SubSeq(AlnumRun, 3, Len(AlnumRun)),
                                            RadixOf(AlnumRun[2]), 0))
        /\ cursor = tokStart + Len(AlnumRun)

InvalidBaseMsg == "Error when parsing integer literal: InvalidBase"

\* C10: a literal that begins with 0 and whose second character is a letter
\* other than the base markers is answered by the invalid-base Error token.
C10_InvalidBase ==
    (returned /\ FirstOfToken = "0" /\ is_alphabetic(SecondOfToken)
              /\ RadixOf(SecondOfToken) = 0) =>
        (tok.kind = "Error" /\ tok.msg = InvalidBaseMsg)

\* The byte offset right after the first newline at or after offset i of b,
\* or the length of b when no newline follows
PastEndOfLine(b, i) ==
    IF \E k \in (i + 1)..Len(b) : b[k] = "\n"
    THEN CHOOSE k \in (i + 1)..Len(b) :
             b[k] = "\n" /\ \A m \in (i + 1)..(k - 1) : b[m] # "\n"
    ELSE Len(b)

\* C11: whenever the token begins with a slash immediately followed by a
\* slash, the call returns one Comment token, leaves the cursor past the end
\* of that line (or at the end of the source), and leaves the position at
\* column 1 of the next line.
C11_LineComment ==
    (returned /\ FirstOfToken = "/" /\ SecondOfToken = "/") =>
        /\ tok.kind = "Comment"
        /\ cursor = PastEndOfLine(src, tokStart)
        /\ line = wsLine + 1
        /\ column = 1

OnlyWhitespace(b) == \A k \in 1..Len(b) : b[k] = Cont \/ is_whitespace(b[k])

\* C12: on a source made of whitespace characters only (the empty source
\* included) the first call of next() returns Eof and leaves the cursor at
\* the end of the source.
C12_WhitespaceOnlyIsEof ==
    (calls = 1 /\ OnlyWhitespace(src)) =>
        (~panicked /\ tok.kind = "Eof" /\ cursor = Len(src))

\* The text of the tokens that are always spelt the same way
Punctuation ==
    { [kind |-> "Colon", text |-> <<":">>],
      [kind |-> "Semicolon", text |-> <<";">>],
      [kind |-> "LeftParen", text |-> <<"(">>],
      [kind |-> "RightParen", text |-> <<")">>],
      [kind |-> "LeftCurly", text |-> <<"{">>],
      [kind |-> "RightCurly", text |-> <<"}">>],
      [kind |-> "Comma", text |-> <<",">>] }

FixedTexts ==
    Punctuation
    \cup {[kind |-> KeywordKind(w), text |-> w] : w \in Keywords}
    \cup {[kind |-> BareKind(c), text |-> <<c>>] : c \in OperatorChars}
    \cup {[kind |-> CompoundKind(c), text |-> <<c, Partner(c)>>] :
              c \in OperatorChars}

\* C13: the part of the source a call consumes is the whitespace it skipped
\* followed by exactly the text of the token it returned, and Eof is returned
\* with the whole source consumed.  (A call begins where the one before it
\* ended, so the parts then tile the source from offset 0 to its length.)
C13_SpansPartitionSource ==
    returned =>
        /\ startCursor <= tokStart /\ tokStart <= cursor
        /\ OnlyWhitespace(Slice(src, startCursor, tokStart))
        /\ \A ft \in FixedTexts :
               tok.kind = ft.kind => Slice(src, tokStart, cursor) = ft.text
        /\ tok.kind = "Identifier" => Slice(src, tokStart, cursor) = tok.name
        /\ tok.kind = "Eof" => (tokStart = Len(src) /\ cursor = Len(src))

TooManyMsg(m) == "Too many '" \o m \o "' in integer literal"

\* The base markers a literal holds more than once
RepeatedMarkers(run) == {m \in Range(BASES) : Count(run, m) > 1}

\* The token wraps what Number::from_str makes of the literal
WrapsFromStr(run) ==
    IF from_str(run).ok
    THEN tok.kind = "Number" /\ tok.number = from_str(run).number
    ELSE /\ tok.kind = "Error"
         /\ tok.msg = "Error when parsing integer literal: "
                          \o from_str(run).err

\* C15: a numeric literal run (here: one without dots) gets the error
\* "Too many '<marker>' ..." exactly when some base marker occurs in it more
\* than once, the error naming such a marker; a run whose markers all occur
\* at most once gets the token that wraps the result of Number::from_str.
C15_RepeatedBaseMarker ==
    (returned /\ is_ascii_digit(FirstOfToken) /\ Count(NumberRun, ".") = 0) =>
        /\ (\E m \in Range(BASES) :
                tok.kind = "Error" /\ tok.msg = TooManyMsg(m))
               <=> RepeatedMarkers(NumberRun) # {}
        /\ \A m \in Range(BASES) :
               (tok.kind = "Error" /\ tok.msg = TooManyMsg(m))
                   => m \in RepeatedMarkers(NumberRun)
        /\ RepeatedMarkers(NumberRun) = {} => WrapsFromStr(NumberRun)

\* The characters that are digits of a radix
RadixDigits(radix) ==
    {DigitSeq[k] : k \in 1..(IF radix < 10 THEN radix ELSE 10)}
    \cup {LowerSeq[k] : k \in 1..(radix - 10)}
    \cup {UpperSeq[k] : k \in 1..(radix - 10)}

\* The literal is no decimal float and is "0", a base marker, and more
MarkedLiteral ==
    /\ parsed # NotParsed
    /\ ~ParseF64(literal).ok
    /\ Len(literal) >= 2
    /\ literal[1] = "0"
    /\ RadixOf(literal[2]) # 0

C17_LiteralAdvancesLine ==
    (returned /\ is_ascii_digit(FirstOfToken)) =>
        /\ tok.kind \in {"Number", "Error"}
        /\ line = wsLine + Len(NumberRun)
        /\ column = wsColumn + 1
        /\ tok.line = wsLine + Len(NumberRun)
        /\ tok.column = wsColumn + 1

C17_Witness ==
    /\ returned
    /\ is_ascii_digit(FirstOfToken)
    /\ tok.kind = "Number"
    /\ Len(NumberRun) >= 2
    /\ wsLine > startLine
    /\ line = wsLine + Len(NumberRun)

\* The whitespace the last call found where it began
WhitespaceRun == MaximalRun(src, startCursor, "whitespace")

\* The index in a run of its last newline (0: none), and the number of
\* characters after it
LastNewline(run) ==
    IF Count(run, "\n") = 0 THEN 0
    ELSE CHOOSE k \in 1..Len(run) :
             run[k] = "\n" /\ \A m \in (k + 1)..Len(run) : run[m] # "\n"

CharsAfter(run, k) == Cardinality({m \in (k + 1)..Len(run) : run[m] # Cont})

\* C18: no call of next() lowers the line; of the whitespace a call skips,
\* each newline raises the line by 1 and sets the column to 1, and each other
\* character raises the column by 1 and leaves the line alone.
C18_LineMonotoneWhitespace ==
    returned =>
        /\ line >= startLine
        /\ line >= wsLine
        /\ wsLine = startLine + Count(WhitespaceRun, "\n")
        /\ wsColumn = (IF Count(WhitespaceRun, "\n") = 0 THEN startColumn ELSE 1)
                          + CharsAfter(WhitespaceRun, LastNewline(WhitespaceRun))

C18_Witness ==
    /\ returned
    /\ calls >= 2
    /\ Count(WhitespaceRun, "\n") = 1
    /\ LastNewline(WhitespaceRun) \in 2..(Len(WhitespaceRun) - 1)
    /\ wsLine = startLine + 1
    /\ wsColumn = 2

\* C19: a call of next() made after one that returned Eof returns Eof again
\* and leaves the cursor, the line and the column as they were, so that the
\* Eof token carries the line and column of the Eof before it.
C19_EofIsNoOp ==
    (returned /\ eofs >= 2) =>
        /\ tok.kind = "Eof"
        /\ cursor = startCursor
        /\ line = startLine
        /\ column = startColumn
        /\ tok.line = startLine
        /\ tok.column = startColumn

\* C20: in a fresh Lexer and after every call of next() that returns, the
\* cursor is a byte offset of the source: 0 <= cursor <= len(src).
C20_CursorInBounds == ~panicked => (0 <= cursor /\ cursor <= Len(src))

C20_Witness ==
    /\ returned
    /\ tok.kind = "Identifier"
    /\ Len(src) >= 2
    /\ cursor = Len(src)

====
